---- MODULE Spec2Model ----
(***************************************************************************)
(* Model of worker.js: a web worker that receives a decimal string,       *)
(* factors the integer with trial division over a sieved prime list, a    *)
(* Miller-Rabin primality test and Pollard's rho, and posts the result.   *)
(*                                                                         *)
(* BigInt arithmetic is exact; the model's integers stay far below TLC's  *)
(* 32-bit range for the bounds chosen, so no wrap-around is introduced.   *)
(* Math.random() is a nondeterministic draw from 0..RandMax.              *)
(***************************************************************************)
EXTENDS Integers, Sequences, FiniteSets, TLC

VARIABLES pc, inputStr, n0, n, pidx, factors, stack, target, outbox,
          mr, rho, draws, args, ret

vars == <<pc, inputStr, n0, n, pidx, factors, stack, target, outbox,
          mr, rho, draws, args, ret>>

(***************************************************************************)
(* Bounds of the model.                                                    *)
(***************************************************************************)
\* worker.js line 4 sets PRIME_LIMIT = 100000; the model sieves up to a
\* small limit so that values beyond the trial-division range are reachable.
PRIME_LIMIT == 5
\* largest non-negative integer sent to the worker
MaxN == 100
\* the most negative integer sent to the worker is -MaxNeg
MaxNeg == 6
\* Math.floor(Math.random() * Number.MAX_SAFE_INTEGER) is drawn from 0..RandMax
RandMax == 100
\* number of entries the work stack can hold before the host runs out of memory
MaxStack == 6
\* number of nested retries of pollardRho the call stack of the engine holds
MaxDepth == 2
\* direct calls of isPrimeMillerRabin(n, k): n in -2..MaxMRN, k in 0..MaxK
MaxMRN == 45
MaxK == 5
\* direct calls of pollardRho(n): composite n in 4..MaxRhoN
MaxRhoN == 40
\* direct calls of modPow(base, exp, mod)
MaxBase == 6
MaxExp == 6
MaxMod == 6
\* direct calls of generatePrimes(limit): limit in 0..MaxLimit
MaxLimit == 30

(***************************************************************************)
(* BigInt operators of JavaScript.                                         *)
(***************************************************************************)
Abs(a) == IF a < 0 THEN -a ELSE a

\* a % b on BigInt: the result has the sign of the dividend (b # 0)
JsMod(a, b) == IF a >= 0 THEN a % Abs(b) ELSE -((-a) % Abs(b))

\* a / b on BigInt: truncation toward zero (b # 0)
JsDiv(a, b) ==
    LET q == Abs(a) \div Abs(b)
    IN  IF (a < 0) = (b < 0) THEN q ELSE -q

(***************************************************************************)
(* Decimal strings: sequences of one-character strings.                    *)
(***************************************************************************)
Digits == <<"0", "1", "2", "3", "4", "5", "6", "7", "8", "9">>

IsDigit(ch) == \E i \in 1..10 : Digits[i] = ch

DigitVal(ch) == (CHOOSE i \in 1..10 : Digits[i] = ch) - 1

IsSpace(ch) == ch = " "

RECURSIVE NatToStr(_)
NatToStr(v) ==
    IF v < 10 THEN <<Digits[v + 1]>>
    ELSE Append(NatToStr(v \div 10), Digits[(v % 10) + 1])

\* String(bigint), also the property key that factors[p] uses
ToStr(v) == IF v < 0 THEN <<"-">> \o NatToStr(-v) ELSE NatToStr(v)

RECURSIVE TrimLeft(_)
TrimLeft(s) ==
    IF s # <<>> /\ IsSpace(Head(s)) THEN TrimLeft(Tail(s)) ELSE s

RECURSIVE TrimRight(_)
TrimRight(s) ==
    IF s # <<>> /\ IsSpace(s[Len(s)])
    THEN TrimRight(SubSeq(s, 1, Len(s) - 1)) ELSE s

Trim(s) == TrimRight(TrimLeft(s))

AllDigits(s) == Len(s) >= 1 /\ \A i \in 1..Len(s) : IsDigit(s[i])

RECURSIVE DigitsVal(_)
DigitsVal(s) ==
    IF s = <<>> THEN 0
    ELSE 10 * DigitsVal(SubSeq(s, 1, Len(s) - 1)) + DigitVal(s[Len(s)])

\* BigInt(string) of line 154: white space is trimmed, the empty string is
\* 0n, one sign may precede the decimal digits, anything else is a
\* SyntaxError.  (Radix prefixes are outside the alphabet of the inputs.)
BigIntParses(s) ==
    LET t == Trim(s)
    IN  \/ t = <<>>
        \/ AllDigits(t)
        \/ Len(t) >= 2 /\ Head(t) \in {"-", "+"} /\ AllDigits(Tail(t))

BigIntValue(s) ==
    LET t == Trim(s)
    IN  IF t = <<>> THEN 0
        ELSE IF Head(t) = "-" THEN -DigitsVal(Tail(t))
        ELSE IF Head(t) = "+" THEN DigitsVal(Tail(t))
        ELSE DigitsVal(t)

(***************************************************************************)
(* 1. generatePrimes: the sieve of Eratosthenes (lines 8-23).              *)
(***************************************************************************)
\* a store into a Uint8Array; an index outside the array is ignored
StoreU8(arr, idx, val) ==
    IF idx \in DOMAIN arr THEN [arr EXCEPT ![idx] = val] ELSE arr

\* lines 13-15
RECURSIVE MarkMultiples(_, _, _, _)
MarkMultiples(isPrime, i, p, limit) ==
    IF i <= limit
    THEN MarkMultiples(StoreU8(isPrime, i, 0), i + p, p, limit)
    ELSE isPrime

\* the outer loop stopping one step early (p * p < limit)
SieveContinues_Mut(p, limit) == p * p < limit

\* line 11: the condition of the outer loop
SieveContinues(p, limit) == p * p <= limit

\* lines 12-16: the body of the outer loop
SieveStep(isPrime, p, limit) ==
    IF isPrime[p] = 1 THEN MarkMultiples(isPrime, p * p, p, limit) ELSE isPrime

\* lines 11-17
RECURSIVE SieveLoop(_, _, _)
SieveLoop(isPrime, p, limit) ==
    IF SieveContinues(p, limit)
    THEN SieveLoop(SieveStep(isPrime, p, limit), p + 1, limit)
    ELSE isPrime

\* lines 18-21
RECURSIVE CollectPrimes(_, _, _, _)
CollectPrimes(isPrime, i, limit, primes) ==
    IF i <= limit
    THEN CollectPrimes(isPrime, i + 1, limit,
                       IF isPrime[i] = 1 THEN Append(primes, i) ELSE primes)
    ELSE primes

\* lines 9-10
SieveTable(limit) ==
    LET filled == [i \in 0..limit |-> 1]
    IN  StoreU8(StoreU8(filled, 0, 0), 1, 0)

generatePrimes(limit) ==
    CollectPrimes(SieveLoop(SieveTable(limit), 2, limit), 0, limit, <<>>)

\* line 26
smallPrimes == generatePrimes(PRIME_LIMIT)

(***************************************************************************)
(* 2. gcd, modPow, randBigInt (lines 29-58).                               *)
(***************************************************************************)
RECURSIVE gcd(_, _)
gcd(a, b) == IF b > 0 THEN gcd(b, JsMod(a, b)) ELSE a

RECURSIVE modPowLoop(_, _, _, _)
modPowLoop(res, base, exp, mod) ==
    IF exp > 0
    THEN modPowLoop(IF JsMod(exp, 2) = 1 THEN JsMod(res * base, mod) ELSE res,
                    JsMod(base * base, mod), JsDiv(exp, 2), mod)
    ELSE res

modPow(base, exp, mod) == modPowLoop(1, JsMod(base, mod), exp, mod)

\* randNum % range throws a RangeError (division by zero) when max = min
randThrows(min, max) == max - min = 0

\* the remainder taken modulo range + 1: max itself can be returned
randBigInt_Mut(min, max, randNum) == JsMod(randNum, max - min + 1) + min

\* randBigInt with the value of the random source made explicit
randBigInt(min, max, randNum) == JsMod(randNum, max - min) + min

RandSource == 0..RandMax

Draw(min, max, v) == [min |-> min, max |-> max, v |-> v]

(***************************************************************************)
(* 3. isPrimeMillerRabin (lines 61-88).                                    *)
(***************************************************************************)
\* lines 66-71: n - 1 = d * 2^r with d odd
RECURSIVE OddPart(_)
OddPart(d) == IF JsMod(d, 2) = 0 THEN OddPart(JsDiv(d, 2)) ELSE d

RECURSIVE TwoExp(_)
TwoExp(d) == IF JsMod(d, 2) = 0 THEN 1 + TwoExp(JsDiv(d, 2)) ELSE 0

\* the squaring loop running one time too few (j < r - 2)
RECURSIVE SquareLoop_Mut(_, _, _, _)
SquareLoop_Mut(x, j, r, nn) ==
    IF j < r - 2
    THEN LET x2 == JsMod(x * x, nn)
         IN  IF x2 = nn - 1 THEN TRUE ELSE SquareLoop_Mut(x2, j + 1, r, nn)
    ELSE FALSE

\* lines 78-84: TRUE when some squaring reaches n - 1
RECURSIVE SquareLoop(_, _, _, _)
SquareLoop(x, j, r, nn) ==
    IF j < r - 1
    THEN LET x2 == JsMod(x * x, nn)
         IN  IF x2 = nn - 1 THEN TRUE ELSE SquareLoop(x2, j + 1, r, nn)
    ELSE FALSE

\* line 85 with the flag inverted: a round whose squarings never reach
\* n - 1 passes
RoundPasses_Mut(nn, d, r, a) ==
    LET x == modPow(a, d, nn)
    IN  x = 1 \/ x = nn - 1 \/ ~SquareLoop(x, 0, r, nn)

\* lines 75-85: one round with witness a passes
RoundPasses(nn, d, r, a) ==
    LET x == modPow(a, d, nn)
    IN  x = 1 \/ x = nn - 1 \/ SquareLoop(x, 0, r, nn)

\* line 61: k = 5
DefaultRounds == 5

MRFrame(nn, k) == [n |-> nn, k |-> k, i |-> 0, d |-> 0, r |-> 0, res |-> FALSE]

\* lines 62-71: the shortcuts and the decomposition of n - 1
MRCall ==
    /\ pc = "mr_call"
    /\ IF mr.n < 2
       THEN /\ mr' = [mr EXCEPT !.res = FALSE]
            /\ pc' = "mr_ret"
       ELSE IF mr.n = 2 \/ mr.n = 3
       THEN /\ mr' = [mr EXCEPT !.res = TRUE]
            /\ pc' = "mr_ret"
       ELSE IF JsMod(mr.n, 2) = 0
       THEN /\ mr' = [mr EXCEPT !.res = FALSE]
            /\ pc' = "mr_ret"
       ELSE /\ mr' = [mr EXCEPT !.d = OddPart(mr.n - 1),
                                !.r = TwoExp(mr.n - 1), !.i = 0]
            /\ pc' = "mr_round"
    /\ draws' = <<>>
    /\ UNCHANGED <<inputStr, n0, n, pidx, factors, stack, target, outbox,
                   rho, args, ret>>

\* lines 73-86: one iteration of the round loop
MRRound ==
    /\ pc = "mr_round"
    /\ mr.i < mr.k
    /\ \E randNum \in RandSource :
         LET a == randBigInt(2, mr.n - 2, randNum)
         IN  /\ draws' = <<Draw(2, mr.n - 2, a)>>
             /\ IF RoundPasses(mr.n, mr.d, mr.r, a)
                THEN /\ mr' = [mr EXCEPT !.i = @ + 1]
                     /\ pc' = "mr_round"
                ELSE /\ mr' = [mr EXCEPT !.res = FALSE]
                     /\ pc' = "mr_ret"
    /\ UNCHANGED <<inputStr, n0, n, pidx, factors, stack, target, outbox,
                   rho, args, ret>>

\* line 87: every round passed
MRDone ==
    /\ pc = "mr_round"
    /\ ~(mr.i < mr.k)
    /\ mr' = [mr EXCEPT !.res = TRUE]
    /\ pc' = "mr_ret"
    /\ draws' = <<>>
    /\ UNCHANGED <<inputStr, n0, n, pidx, factors, stack, target, outbox,
                   rho, args, ret>>

(***************************************************************************)
(* 4. pollardRho (lines 91-112).  The retry of line 108 is a nested call:  *)
(* every retry adds a frame to the call stack, and the call that would     *)
(* exceed the engine's stack throws a RangeError instead of running.  The  *)
(* frames below the running one only pass its value on, so the model keeps *)
(* the running frame and the number of frames below it.                    *)
(***************************************************************************)
RhoFrame(nn) ==
    [n |-> nn, x |-> 0, y |-> 0, c |-> 0, g |-> 1, depth |-> 0, err |-> ""]

\* an uncaught exception reaches the catch of lines 166-171
Throw(msg) ==
    /\ pc' = "done"
    /\ outbox' = Append(outbox, [status |-> "error", message |-> msg])

\* lines 99 and 100-101: x -> (x*x + c) % n
RhoF(x, c, nn) == JsMod(x * x + c, nn)

\* lines 99-104: the values of x, y and g after one iteration
RhoStep(f) ==
    LET x1 == RhoF(f.x, f.c, f.n)
        y1 == RhoF(RhoF(f.y, f.c, f.n), f.c, f.n)
        diff == IF x1 > y1 THEN x1 - y1 ELSE y1 - x1
    IN  [f EXCEPT !.x = x1, !.y = y1, !.g = gcd(diff, f.n)]

\* lines 92-96
RhoCall ==
    /\ pc = "rho_call"
    /\ IF JsMod(rho.n, 2) = 0
       THEN /\ rho' = [rho EXCEPT !.g = 2]
            /\ pc' = "rho_ret"
            /\ draws' = <<>>
            /\ UNCHANGED outbox
       ELSE IF randThrows(2, rho.n - 1) \/ randThrows(1, rho.n - 1)
       THEN /\ rho' = [rho EXCEPT !.err = "Division by zero"]
            /\ pc' = "rho_throw"
            /\ draws' = <<>>
            /\ UNCHANGED outbox
       ELSE \E rx \in RandSource, rc \in RandSource :
              LET x0 == randBigInt(2, rho.n - 1, rx)
                  c0 == randBigInt(1, rho.n - 1, rc)
              IN  /\ rho' = [rho EXCEPT !.x = x0, !.y = x0, !.c = c0, !.g = 1]
                  /\ draws' = <<Draw(2, rho.n - 1, x0), Draw(1, rho.n - 1, c0)>>
                  /\ pc' = "rho_loop"
                  /\ UNCHANGED outbox
    /\ UNCHANGED <<inputStr, n0, n, pidx, factors, stack, target, mr, args, ret>>

\* lines 98-111: one iteration of the while loop
RhoIter ==
    /\ pc = "rho_loop"
    /\ rho.g = 1
    /\ LET f == RhoStep(rho)
       IN  IF f.g = rho.n
           THEN IF rho.depth < MaxDepth
                THEN \* line 108: a nested invocation, with locals of its own
                     /\ rho' = [RhoFrame(rho.n) EXCEPT !.g = f.g,
                                                       !.depth = rho.depth + 1]
                     /\ pc' = "rho_call"
                ELSE \* line 108: the call stack is full, the call throws
                     /\ rho' = [f EXCEPT
                                  !.err = "Maximum call stack size exceeded"]
                     /\ pc' = "rho_throw"
           ELSE /\ rho' = f
                /\ pc' = IF f.g = 1 THEN "rho_loop" ELSE "rho_ret"
    /\ draws' = <<>>
    /\ UNCHANGED <<inputStr, n0, n, pidx, factors, stack, target, outbox,
                   mr, args, ret>>

(***************************************************************************)
(* 5. factorize (lines 115-148) and the message handler (lines 151-172).   *)
(***************************************************************************)
NoFactors == [k \in {} |-> 0]

\* the count overwritten with 1 instead of incremented
IncFactor_Mut(f, v) ==
    LET key == ToStr(v)
    IN  [k \in DOMAIN f \cup {key} |-> IF k = key THEN 1 ELSE f[k]]

\* factors[p] = (factors[p] || 0) + 1: the BigInt key becomes its string
IncFactor(f, v) ==
    LET key == ToStr(v)
    IN  IF key \in DOMAIN f
        THEN [f EXCEPT ![key] = @ + 1]
        ELSE [k \in DOMAIN f \cup {key} |-> IF k = key THEN 1 ELSE f[k]]

\* lines 121-124: divide p out of nn, counting in f
RECURSIVE DivideOut(_, _, _)
DivideOut(nn, p, f) ==
    IF JsMod(nn, p) = 0
    THEN DivideOut(JsDiv(nn, p), p, IncFactor(f, p))
    ELSE [n |-> nn, factors |-> f]

\* line 120 with >= for >: the loop stops at a remainder equal to p * p
TrialBreak_Mut(p, nn) == p * p >= nn

\* line 120
TrialBreak(p, nn) == p * p > nn

\* lines 141-142
PushSplit(stk, tgt, factor) == Append(Append(stk, factor), JsDiv(tgt, factor))

\* lines 160-165 (the elapsed time is informational and left out)
Success(str, result) ==
    [status |-> "success", original |-> str, factors |-> result]

InputInts == (0 - MaxNeg)..MaxN

\* strings that are not the decimal rendering of an integer
OddInputs ==
    { <<>>, <<" ">>, <<"a">>, <<"-">>, <<"1", "a">>, <<"1", ".", "5">>,
      <<"+", "7">>, <<" ", "7", " ">>, <<"-", "a">>, <<"7", " ", "7">> }

InputStrs == {ToStr(v) : v \in InputInts} \cup OddInputs

\* lines 151-156: the message arrives, is parsed, and factorize is entered
OnMessage ==
    /\ pc = "idle"
    /\ IF BigIntParses(inputStr)
       THEN /\ n0' = BigIntValue(inputStr)
            /\ n' = BigIntValue(inputStr)
            /\ factors' = NoFactors
            /\ pidx' = 1
            /\ pc' = "trial"
            /\ UNCHANGED outbox
       ELSE /\ Throw("SyntaxError")
            /\ UNCHANGED <<n0, n, factors, pidx>>
    /\ draws' = <<>>
    /\ UNCHANGED <<inputStr, stack, target, mr, rho, args, ret>>

\* lines 119-125: one iteration of the loop over smallPrimes
TrialDivision ==
    /\ pc = "trial"
    /\ IF pidx > Len(smallPrimes)
       THEN /\ pc' = "after_trial"
            /\ UNCHANGED <<n, factors, pidx>>
       ELSE IF TrialBreak(smallPrimes[pidx], n)
       THEN /\ pc' = "after_trial"
            /\ UNCHANGED <<n, factors, pidx>>
       ELSE LET d == DivideOut(n, smallPrimes[pidx], factors)
            IN  /\ n' = d.n
                /\ factors' = d.factors
                /\ pidx' = pidx + 1
                /\ pc' = "trial"
    /\ draws' = <<>>
    /\ UNCHANGED <<inputStr, n0, stack, target, outbox, mr, rho, args, ret>>

\* lines 127-130
AfterTrial ==
    /\ pc = "after_trial"
    /\ IF n = 1
       THEN /\ outbox' = Append(outbox, Success(inputStr, factors))
            /\ pc' = "done"
            /\ UNCHANGED stack
       ELSE /\ stack' = <<n>>
            /\ pc' = "loop"
            /\ UNCHANGED outbox
    /\ draws' = <<>>
    /\ UNCHANGED <<inputStr, n0, n, pidx, factors, target, mr, rho, args, ret>>

\* lines 131-135 and 147, 156-165: pop a target, or return when none is left
LoopPop ==
    /\ pc = "loop"
    /\ IF stack = <<>>
       THEN /\ outbox' = Append(outbox, Success(inputStr, factors))
            /\ pc' = "done"
            /\ UNCHANGED <<stack, target, mr>>
       ELSE /\ target' = stack[Len(stack)]
            /\ stack' = SubSeq(stack, 1, Len(stack) - 1)
            /\ IF target' = 1
               THEN pc' = "loop" /\ UNCHANGED mr
               ELSE pc' = "mr_call" /\ mr' = MRFrame(target', DefaultRounds)
            /\ UNCHANGED outbox
    /\ draws' = <<>>
    /\ UNCHANGED <<inputStr, n0, n, pidx, factors, rho, args, ret>>

\* lines 135-140: the primality test returned (its frame is gone)
AfterMR ==
    /\ pc = "mr_ret"
    /\ IF mr.res
       THEN /\ factors' = IncFactor(factors, target)
            /\ pc' = "loop"
            /\ UNCHANGED rho
       ELSE /\ pc' = "rho_call"
            /\ rho' = RhoFrame(target)
            /\ UNCHANGED factors
    /\ mr' = MRFrame(0, DefaultRounds)
    /\ draws' = <<>>
    /\ UNCHANGED <<inputStr, n0, n, pidx, stack, target, outbox, args, ret>>

\* lines 140-142: pollardRho returned; target / 0n throws a RangeError
AfterRho ==
    /\ pc = "rho_ret"
    /\ IF rho.g = 0
       THEN /\ Throw("Division by zero")
            /\ UNCHANGED stack
       ELSE /\ Len(stack) + 2 <= MaxStack
            /\ stack' = PushSplit(stack, target, rho.g)
            /\ pc' = "loop"
            /\ UNCHANGED outbox
    /\ rho' = RhoFrame(0)
    /\ draws' = <<>>
    /\ UNCHANGED <<inputStr, n0, n, pidx, factors, target, mr, args, ret>>

\* lines 140 and 166-171: an exception thrown inside pollardRho leaves
\* factorize and is caught by the handler
RhoCatch ==
    /\ pc = "rho_throw"
    /\ Throw(rho.err)
    /\ rho' = RhoFrame(0)
    /\ draws' = <<>>
    /\ UNCHANGED <<inputStr, n0, n, pidx, factors, stack, target, mr, args, ret>>

\* lines 141-142 when the array cannot grow any further: the host either
\* aborts the worker (nothing is posted) or raises an error that line 166
\* catches; which of the two is up to the engine
OutOfMemory ==
    /\ pc = "rho_ret"
    /\ rho.g # 0
    /\ Len(stack) + 2 > MaxStack
    /\ \/ pc' = "aborted" /\ UNCHANGED outbox
       \/ Throw("out of memory")
    /\ draws' = <<>>
    /\ UNCHANGED <<inputStr, n0, n, pidx, factors, stack, target, mr, rho,
                   args, ret>>

Init ==
    /\ pc = "idle"
    /\ inputStr \in InputStrs
    /\ n0 = 0
    /\ n = 0
    /\ pidx = 1
    /\ factors = NoFactors
    /\ stack = <<>>
    /\ target = 0
    /\ outbox = <<>>
    /\ mr = MRFrame(0, DefaultRounds)
    /\ rho = RhoFrame(0)
    /\ draws = <<>>
    /\ args = <<>>
    /\ ret = <<>>

Next ==
    \/ OnMessage
    \/ TrialDivision
    \/ AfterTrial
    \/ LoopPop
    \/ MRCall
    \/ MRRound
    \/ MRDone
    \/ AfterMR
    \/ RhoCall
    \/ RhoIter
    \/ AfterRho
    \/ RhoCatch
    \/ OutOfMemory

Spec == Init /\ [][Next]_vars

(***************************************************************************)
(* Direct calls of the functions, for the properties stated of every       *)
(* argument and not only of the arguments factorize passes.                *)
(***************************************************************************)
Rest ==
    /\ inputStr = <<>>
    /\ n0 = 0
    /\ n = 0
    /\ pidx = 1
    /\ factors = NoFactors
    /\ stack = <<>>
    /\ target = 0
    /\ outbox = <<>>
    /\ draws = <<>>

\* a divisor other than 1 and v
HasDivisor(v) == \E d \in 2..(v - 1) : v % d = 0

IsPrime(v) == v >= 2 /\ ~HasDivisor(v)

\* isPrimeMillerRabin(v, k) for v in -2..MaxMRN and k in 0..MaxK
InitMR ==
    /\ pc = "mr_call"
    /\ mr \in {MRFrame(v, k) : v \in (0 - 2)..MaxMRN, k \in 0..MaxK}
    /\ rho = RhoFrame(0)
    /\ args = <<>>
    /\ ret = <<>>
    /\ Rest

NextMR == MRCall \/ MRRound \/ MRDone

SpecMR == InitMR /\ [][NextMR]_vars

\* pollardRho(v) for the composite v in 4..MaxRhoN
InitRho ==
    /\ pc = "rho_call"
    /\ rho \in {RhoFrame(v) : v \in {w \in 4..MaxRhoN : HasDivisor(w)}}
    /\ mr = MRFrame(0, DefaultRounds)
    /\ args = <<>>
    /\ ret = <<>>
    /\ Rest

NextRho == RhoCall \/ RhoIter

SpecRho == InitRho /\ [][NextRho]_vars

\* modPow(base, exp, mod)
InitModPow ==
    /\ pc = "mp_call"
    /\ args \in [base : 0..MaxBase, exp : 0..MaxExp, mod : 1..MaxMod]
    /\ ret = <<>>
    /\ mr = MRFrame(0, DefaultRounds)
    /\ rho = RhoFrame(0)
    /\ Rest

ModPowCall ==
    /\ pc = "mp_call"
    /\ ret' = modPow(args.base, args.exp, args.mod)
    /\ pc' = "mp_ret"
    /\ UNCHANGED <<inputStr, n0, n, pidx, factors, stack, target, outbox,
                   mr, rho, draws, args>>

SpecModPow == InitModPow /\ [][ModPowCall]_vars

\* generatePrimes(limit), one iteration of the outer loop at a time; ret
\* holds the locals isPrime, p and primes
InitSieve ==
    /\ pc = "gp_call"
    /\ args \in [limit : 0..MaxLimit]
    /\ ret = <<>>
    /\ mr = MRFrame(0, DefaultRounds)
    /\ rho = RhoFrame(0)
    /\ Rest

\* lines 9-11
SieveEnter ==
    /\ pc = "gp_call"
    /\ ret' = [isPrime |-> SieveTable(args.limit), p |-> 2, primes |-> <<>>]
    /\ pc' = "gp_sieve"
    /\ UNCHANGED <<inputStr, n0, n, pidx, factors, stack, target, outbox,
                   mr, rho, draws, args>>

\* lines 11-17
SieveOuter ==
    /\ pc = "gp_sieve"
    /\ SieveContinues(ret.p, args.limit)
    /\ ret' = [ret EXCEPT !.isPrime = SieveStep(ret.isPrime, ret.p, args.limit),
                          !.p = @ + 1]
    /\ UNCHANGED <<pc, inputStr, n0, n, pidx, factors, stack, target, outbox,
                   mr, rho, draws, args>>

\* lines 18-22
SieveCollect ==
    /\ pc = "gp_sieve"
    /\ ~SieveContinues(ret.p, args.limit)
    /\ ret' = [ret EXCEPT
                 !.primes = CollectPrimes(ret.isPrime, 0, args.limit, <<>>)]
    /\ pc' = "gp_ret"
    /\ UNCHANGED <<inputStr, n0, n, pidx, factors, stack, target, outbox,
                   mr, rho, draws, args>>

NextSieve == SieveEnter \/ SieveOuter \/ SieveCollect

SpecSieve == InitSieve /\ [][NextSieve]_vars

(***************************************************************************)
(* Reference definitions, independent of the operators above.              *)
(***************************************************************************)
RECURSIVE Pow(_, _)
Pow(b, e) == IF e = 0 THEN 1 ELSE b * Pow(b, e - 1)

\* b^e mod m by e multiplications
RECURSIVE PowMod(_, _, _)
PowMod(b, e, m) == IF e = 0 THEN 1 % m ELSE (b * PowMod(b, e - 1, m)) % m

\* the number a decimal key stands for
KeyValue(key) == DigitsVal(key)

RECURSIVE ProductOver(_, _)
ProductOver(f, keys) ==
    IF keys = {} THEN 1
    ELSE LET k == CHOOSE k \in keys : TRUE
         IN  Pow(KeyValue(k), f[k]) * ProductOver(f, keys \ {k})

FactorsProduct(f) == ProductOver(f, DOMAIN f)

\* the exponent of p in v (v >= 1, p >= 2)
RECURSIVE Multiplicity(_, _)
Multiplicity(v, p) == IF v % p = 0 THEN 1 + Multiplicity(v \div p, p) ELSE 0

\* the prime factorization of v >= 1, keyed by decimal strings
TrueFactorization(v) ==
    LET ps == {p \in 2..v : IsPrime(p) /\ v % p = 0}
    IN  [key \in {ToStr(p) : p \in ps} |-> Multiplicity(v, KeyValue(key))]

\* a is a strong liar for the odd v: a^d = 1 or a^(d*2^j) = -1 (mod v) for
\* some j < r, where v - 1 = d * 2^r with d odd
StrongLiar(a, v) ==
    LET r == Multiplicity(v - 1, 2)
        d == (v - 1) \div Pow(2, r)
    IN  \/ PowMod(a, d, v) = 1
        \/ \E j \in 0..(r - 1) : PowMod(a, d * Pow(2, j), v) = v - 1

\* the largest prime of the cached prime list
LargestSmallPrime == smallPrimes[Len(smallPrimes)]

\* a string of decimal digits, with an optional + sign and surrounding space
IsNonNegDecimal(s) ==
    LET t == Trim(s)
    IN  \/ AllDigits(t)
        \/ Len(t) >= 2 /\ Head(t) = "+" /\ AllDigits(Tail(t))

\* the handler has finished, or the host has aborted the worker
Stopped == pc \in {"done", "aborted"}

Succeeded == pc = "done" /\ Len(outbox) = 1 /\ outbox[1].status = "success"

Failed == pc = "done" /\ Len(outbox) = 1 /\ outbox[1].status = "error"

InRho == pc \in {"rho_call", "rho_loop", "rho_ret", "rho_throw"}

(***************************************************************************)
(* Properties.                                                             *)
(***************************************************************************)

\* C1: whenever factorize(n) returns for n >= 1, the product of key^exponent
\* over the returned mapping equals n, and factorize(1) returns the empty
\* mapping.
C1_ProductEqualsInput ==
    (Succeeded /\ n0 >= 1) =>
        /\ FactorsProduct(outbox[1].factors) = n0
        /\ \A key \in DOMAIN outbox[1].factors : outbox[1].factors[key] >= 1
        /\ (n0 = 1 => outbox[1].factors = NoFactors)

\* 98 = 2 * 7^2: trial division removes 2, pollardRho splits 49
C1_Witness ==
    /\ Succeeded
    /\ n0 = 98
    /\ outbox[1].factors = TrueFactorization(98)

\* C2 as stated: every key of the mapping returned by factorize(n), n >= 1,
\* is a prime number, whichever witnesses the Miller-Rabin rounds drew.
C2_KeysArePrime ==
    (Succeeded /\ n0 >= 1) =>
        \A key \in DOMAIN outbox[1].factors : IsPrime(KeyValue(key))

\* C2 amended: every key of the mapping returned by factorize(n), n >= 1, is
\* a prime, or an odd composite that no prime of the cached list divides and
\* that has a strong liar among the witnesses 2..key-3 the test can draw.
C2_KeysPrimeOrPseudoprime ==
    (Succeeded /\ n0 >= 1) =>
        \A key \in DOMAIN outbox[1].factors :
            LET v == KeyValue(key)
            IN  \/ IsPrime(v)
                \/ /\ v > LargestSmallPrime * LargestSmallPrime
                   /\ \A i \in 1..Len(smallPrimes) : v % smallPrimes[i] # 0
                   /\ \E a \in 2..(v - 3) : StrongLiar(a, v)

\* 49 passed five rounds (18, 19, 30 and 31 are strong liars) and is a key
C2_Witness ==
    /\ Succeeded
    /\ n0 = 49
    /\ DOMAIN outbox[1].factors = {ToStr(49)}

\* C3 as stated: for every well-formed non-negative integer input (0
\* included) the handler's call of factorize returns and exactly one message,
\* the result, is posted: a run that has stopped has posted the result.
C3_FactorizeReturns ==
    (IsNonNegDecimal(inputStr) /\ Stopped) => Succeeded

\* C4 as stated: when the input string is not a valid non-negative decimal
\* integer, an error message is posted and factorize is never started.
C4_InvalidInputRejected ==
    ~IsNonNegDecimal(inputStr) =>
        /\ pc \in {"idle", "done"}
        /\ (pc = "done" => Failed /\ outbox[1].message = "SyntaxError")

\* C8: while factorizing n >= 1, every call randBigInt(min, max) has
\* min < max and returns v with min <= v < max.
C8_RandInRange ==
    n0 >= 1 =>
        \A i \in 1..Len(draws) :
            /\ draws[i].min < draws[i].max
            /\ draws[i].min <= draws[i].v
            /\ draws[i].v < draws[i].max

\* the seed and the increment drawn for pollardRho(77), at the top of both
\* ranges
C8_Witness ==
    /\ n0 = 77
    /\ pc = "rho_loop"
    /\ Len(draws) = 2
    /\ draws[1].v = 75
    /\ draws[2].v = 75

\* C10: for 1 <= n < P*P, P the largest cached prime, trial division stops
\* on prime*prime > remainder with a remainder that is 1 or a prime,
\* pollardRho is never called, and every run returns the prime factorization
\* of n, whatever the random values.
C10_DeterministicBelowCrossover ==
    (n0 >= 1 /\ n0 < LargestSmallPrime * LargestSmallPrime) =>
        /\ pc = "after_trial" =>
              /\ pidx <= Len(smallPrimes)
              /\ smallPrimes[pidx] * smallPrimes[pidx] > n
              /\ (n = 1 \/ IsPrime(n))
        /\ ~InRho
        /\ pc = "done" =>
              /\ Succeeded
              /\ outbox[1].factors = TrueFactorization(n0)

\* 22 = 2 * 11: the remainder 11 went through the primality test
C10_Witness ==
    /\ Succeeded
    /\ n0 = 22
    /\ DOMAIN outbox[1].factors = {ToStr(2), ToStr(11)}

\* C5: isPrimeMillerRabin(n, k) returns true for every prime n, every k >= 0
\* and every witness drawn, and false for every n < 2 and every even n > 2.
C5_NoFalseNegative ==
    pc = "mr_ret" =>
        /\ (IsPrime(mr.n) => mr.res)
        /\ ((mr.n < 2 \/ (mr.n > 2 /\ mr.n % 2 = 0)) => ~mr.res)

\* the prime 41 after five passed rounds
C5_Witness ==
    /\ pc = "mr_ret"
    /\ mr.n = 41
    /\ mr.k = 5
    /\ mr.i = 5
    /\ mr.res

\* C6 as stated: a value g that pollardRho(n) returns for a composite
\* n >= 4 divides n with 1 < g < n (2 for an even n); the outcome g = n is
\* never returned, it always leads to a new attempt with a new seed and
\* increment.
C6_RhoReturnsProperFactor ==
    /\ pc = "rho_ret" =>
          /\ 1 < rho.g
          /\ rho.g < rho.n
          /\ rho.n % rho.g = 0
          /\ (rho.n % 2 = 0 => rho.g = 2)
    /\ rho.g = rho.n => pc = "rho_call"

\* C7 as stated: modPow(base, exp, mod) = base^exp mod mod for base >= 0,
\* exp >= 0 and mod >= 1, and so modPow(a, 0, 1) = 1 mod 1 = 0.
C7_ModPowIsPowerModulo ==
    pc = "mp_ret" => ret = Pow(args.base, args.exp) % args.mod

\* C9: generatePrimes(limit) returns exactly the primes p <= limit, each
\* once, in strictly ascending order.
C9_SieveIsExact ==
    pc = "gp_ret" =>
        /\ \A i \in 1..(Len(ret.primes) - 1) : ret.primes[i] < ret.primes[i + 1]
        /\ {ret.primes[i] : i \in 1..Len(ret.primes)}
             = {p \in 0..args.limit : IsPrime(p)}

\* the ten primes up to 30
C9_Witness ==
    /\ pc = "gp_ret"
    /\ args.limit = 30
    /\ Len(ret.primes) = 10

====
